---- MODULE Spec2Model ----
(***************************************************************************)
(* FreeRDP TSMF media container (channels/drdynvc/tsmf/tsmf_media.c) and   *)
(* the ffmpeg decoder's buffer handling (tsmf/ffmpeg/tsmf_ffmpeg.c).       *)
(*                                                                         *)
(* Objects live at handles (malloc addresses): presentations 1.., streams  *)
(* 1.., samples 1.. (a sample's payload buffer carries the handle of the   *)
(* sample it was decoded for).  The intrusive linked lists are sequences   *)
(* of handles / of sample records, head first.  A section of code that     *)
(* runs with the presentation mutex held is one action; code outside the   *)
(* mutex is split at its accesses to shared fields.                        *)
(***************************************************************************)
EXTENDS Integers, Sequences, FiniteSets, TLC

\* ------------------------------------------------------------- bounds
MaxPresentations == 2   \* presentation objects ever allocated
MaxStreams == 3         \* stream objects ever allocated
MaxSamples == 2         \* sample objects ever allocated
MaxTime == 2            \* start_time inputs are 0..MaxTime
MaxThreads == 2         \* playback threads alive at once
MaxLookaheadSamples == 11  \* sample objects ever allocated (SpecLookahead)
MaxLookaheadQueue == 2     \* queued samples per stream (SpecLookahead)

\* ---------------------------------------------------- program constants
AudioQueueLimit == 10   \* GetQueueLength(...) < 10

NULL == 0
Callers == {"c1", "c2"}
PH == 1..MaxPresentations
SH == 1..MaxStreams
TH == 1..MaxThreads
Guids == {1, 2}
StreamIds == {1, 2}
Times == 0..MaxTime
Durations == {0, 1}    \* end_time - start_time of the samples pushed
ZeroRect == <<0, 0, 0, 0>>
Rects == {ZeroRect, <<0, 0, 1, 1>>, <<1, 1, 1, 1>>}

VARIABLES
    presentation_list,  \* registry: presentation handles, head first
    pres,               \* presentation objects by handle
    strm,               \* stream objects by handle
    heap,               \* sample objects and payload buffers by sample handle
    sinkq,              \* per presentation: buffers queued in its audio sink
    thr,                \* playback threads (pthread slots)
    call,               \* calling threads: position in the operation they run
    pushed,             \* history: per stream, its queue when last popped, flushed
                        \* or created, followed by the samples pushed since
    sent,               \* history: notifications emitted by the latest dispatch
    err                 \* history: memory errors that have happened

vars == <<presentation_list, pres, strm, heap, sinkq, thr, call, pushed, sent, err>>

\* ------------------------------------------------------------- helpers
Max(a, b) == IF a > b THEN a ELSE b

Range(q) == {q[i] : i \in 1..Len(q)}

Remove(q, x) == SelectSeq(q, LAMBDA y : y # x)

\* struct _TSMF_SAMPLE; obj is the address of the sample object
NoSample ==
    [obj |-> NULL, sample_id |-> 0, start_time |-> 0, end_time |-> 0, duration |-> 0,
     data_size |-> 0, data |-> NULL, stream |-> NULL, channel_callback |-> 0]

\* struct _TSMF_STREAM after malloc + memset 0
NoStream ==
    [st |-> "unalloc", stream_id |-> 0, presentation |-> NULL, decoder |-> "NULL",
     major_type |-> "UNKNOWN", eos |-> 0, queue |-> <<>>]

\* struct _TSMF_PRESENTATION after malloc + memset 0
NoPresentation ==
    [st |-> "unalloc", presentation_id |-> 0, thread_status |-> 0, thread_exit |-> 0,
     playback_time |-> 0, audio |-> "NULL", audio_format |-> FALSE, eos |-> 0,
     last |-> ZeroRect, output |-> ZeroRect, channel_callback |-> 0, streams |-> <<>>]

\* a pthread slot; tick is history: how the thread's latest scheduler
\* invocation ended ("popped" or "waited")
NoThread ==
    [pc |-> "none", presentation |-> NULL, sample |-> NoSample, drain |-> FALSE,
     tick |-> ""]

\* a calling thread that is in no operation; a thread inside an operation of
\* several steps carries its name in op and its arguments in p, s and arg, and
\* keeps them with pc "idle" after a flush, a creation or a push that was
\* dropped until its next call;
\* ret is the object a creation returned
Idle == [pc |-> "idle", op |-> "", p |-> NULL, s |-> NULL, arg |-> <<0, 0>>, ret |-> NULL]

\* ------------------------------------------------ sample queue (114-143)
PopLast(q) ==
    IF q = <<>> THEN [sample |-> NoSample, queue |-> q]
    ELSE [sample |-> q[Len(q)], queue |-> SubSeq(q, 1, Len(q) - 1)]

\* tsmf_stream_pop_sample: the head of the queue, NULL when it is empty
tsmf_stream_pop_sample(q) ==
    IF q = <<>> THEN [sample |-> NoSample, queue |-> q]
    ELSE [sample |-> Head(q), queue |-> Tail(q)]

EnqueueAtHead(q, sample) == <<sample>> \o q

\* tsmf_stream_push_sample 673-682: link the sample at sample_queue_tail
Enqueue(q, sample) == Append(q, sample)

\* free(p) of a heap block in state s
FreeBlock(s) == IF s \in {"live", "sample"} THEN "freed" ELSE "bad"

SampleFreeLeavesData(h, sample) == [h EXCEPT ![sample.obj].obj = FreeBlock(@)]

\* tsmf_sample_free: free(sample->data) when it is not NULL, then free(sample)
tsmf_sample_free(h, sample) ==
    LET h1 == IF sample.data # NULL
              THEN [h EXCEPT ![sample.data].data = FreeBlock(@)]
              ELSE h
    IN  [h1 EXCEPT ![sample.obj].obj = FreeBlock(@)]

RECURSIVE FreeAll(_, _)
\* the loop "while (stream->sample_queue_head) { pop; tsmf_sample_free }"
FreeAll(h, q) ==
    IF q = <<>> THEN h ELSE FreeAll(tsmf_sample_free(h, Head(q)), Tail(q))

\* memory errors visible in a heap
HeapErrors(h) ==
    {"double_free" : k \in {k \in 1..Len(h) : h[k].obj = "bad" \/ h[k].data = "bad"}}

\* ------------------------------------------- ffmpeg decoder (260-381)
\* tsmf_ffmpeg_decode for a decoder of media type mt; `result` is what
\* libavcodec does with the unit; buf is the block malloc would return.
\* Video: a failed or frameless decode returns 1 with no buffer.  Audio:
\* always returns 0, with no buffer when nothing was decoded.
tsmf_ffmpeg_decode(mt, result, buf, size) ==
    CASE mt = "VIDEO" /\ result = "decoded" ->
            [ret |-> 0, decoded_data |-> buf, decoded_size |-> size]
      [] mt = "VIDEO" ->
            [ret |-> 1, decoded_data |-> NULL, decoded_size |-> 0]
      [] mt = "AUDIO" /\ result = "decoded" ->
            [ret |-> 0, decoded_data |-> buf, decoded_size |-> size]
      [] mt = "AUDIO" ->
            [ret |-> 0, decoded_data |-> NULL, decoded_size |-> 0]
      [] OTHER ->
            [ret |-> 1, decoded_data |-> NULL, decoded_size |-> 0]

\* the sub-types tsmf_ffmpeg_set_format maps to a codec id (lines 169-191),
\* and one it does not
KnownSubTypes == {"WVC1", "WMA2", "WMA9", "MP3", "MP2A", "MP2V"}
SubTypes == KnownSubTypes \cup {"OTHER"}

SetFormatAccepts(major_type, sub_type, opens) == 0

\* tsmf_ffmpeg_set_format: 1 for a major type that is neither video nor
\* audio, for a sub-type without a codec id, and when libavcodec fails to
\* set up or open the codec (opens = FALSE); 0 otherwise
tsmf_ffmpeg_set_format(major_type, sub_type, opens) ==
    IF major_type \notin {"VIDEO", "AUDIO"} THEN 1
    ELSE IF sub_type \notin KnownSubTypes THEN 1
    ELSE IF ~opens THEN 1
    ELSE 0

\* tsmf_load_decoder: the decoder whose SetFormat succeeded (it is named by
\* its media type), NULL when SetFormat failed
tsmf_load_decoder(major_type, sub_type, opens) ==
    IF tsmf_ffmpeg_set_format(major_type, sub_type, opens) = 0
    THEN major_type ELSE "NULL"

\* tsmf_ffmpeg_get_decoded_data: hands the buffer over and clears the decoder
tsmf_ffmpeg_get_decoded_data(d) ==
    [buf |-> d.decoded_data, size |-> d.decoded_size,
     decoded_data |-> NULL, decoded_size |-> 0]

\* -------------------------------------------- scheduler (146-193)
\* line 158: some stream has an empty queue and has not reached eos
has_pending_stream(p) ==
    \E i \in 1..Len(pres[p].streams) :
        LET s == pres[p].streams[i] IN strm[s].queue = <<>> /\ strm[s].eos = 0

RECURSIVE ScanLastOnTie(_, _, _)
ScanLastOnTie(list, i, earliest) ==
    IF i > Len(list) THEN earliest
    ELSE LET s == list[i]
             take == /\ strm[s].queue # <<>>
                     /\ \/ earliest = NULL
                        \/ Head(strm[earliest].queue).start_time
                             >= Head(strm[s].queue).start_time
         IN  ScanLastOnTie(list, i + 1, IF take THEN s ELSE earliest)

RECURSIVE ScanEarliest(_, _, _)
\* lines 156-165: the scan of the stream list for earliest_stream
ScanEarliest(list, i, earliest) ==
    IF i > Len(list) THEN earliest
    ELSE LET s == list[i]
             take == /\ strm[s].queue # <<>>
                     /\ \/ earliest = NULL
                        \/ Head(strm[earliest].queue).start_time
                             > Head(strm[s].queue).start_time
         IN  ScanEarliest(list, i + 1, IF take THEN s ELSE earliest)

earliest_stream(p) == ScanEarliest(pres[p].streams, 1, NULL)

PopAllowedNoLookahead(p, e, qlen) ==
    \/ strm[e].major_type = "AUDIO"
    \/ ~has_pending_stream(p)
    \/ pres[p].playback_time = 0
    \/ pres[p].playback_time >= Head(strm[e].queue).start_time

PopAlways(p, e, qlen) == TRUE

PopAllowedStrict(p, e, qlen) ==
    IF strm[e].major_type = "AUDIO"
    THEN pres[p].audio = "NULL" \/ qlen < AudioQueueLimit
    ELSE \/ ~has_pending_stream(p)
         \/ pres[p].playback_time >= Head(strm[e].queue).start_time

\* lines 173-187: whether the head of the earliest stream e is popped;
\* qlen is what audio->GetQueueLength returns
PopAllowed(p, e, qlen) ==
    IF strm[e].major_type = "AUDIO"
    THEN pres[p].audio = "NULL" \/ qlen < AudioQueueLimit
    ELSE \/ ~has_pending_stream(p)
         \/ pres[p].playback_time = 0
         \/ pres[p].playback_time >= Head(strm[e].queue).start_time

AdvanceOrReset(pt, sample) ==
    IF sample.obj # NULL /\ sample.end_time > pt THEN sample.end_time ELSE 0

AdvanceAlways(pt, sample) == IF sample.obj # NULL THEN sample.end_time ELSE pt

\* lines 188-189: playback_time after the invocation
AdvancePlaybackTime(pt, sample) ==
    IF sample.obj # NULL /\ sample.end_time > pt THEN sample.end_time ELSE pt

\* tsmf_presentation_pop_sample: the sample returned (NoSample for NULL), the
\* stream it came from and the new playback_time
tsmf_presentation_pop_sample(p, qlen) ==
    LET e == earliest_stream(p)
        popped == IF e # NULL /\ PopAllowed(p, e, qlen)
                  THEN tsmf_stream_pop_sample(strm[e].queue)
                  ELSE [sample |-> NoSample, queue |-> <<>>]
    IN  [sample |-> popped.sample, stream |-> e, queue |-> popped.queue,
         playback_time |-> AdvancePlaybackTime(pres[p].playback_time, popped.sample)]

\* what GetQueueLength can return: the sink's count, anything once it is freed
QueueLengths(p) ==
    IF pres[p].audio = "dangling" THEN {0, AudioQueueLimit} ELSE {sinkq[p]}

\* an access through presentation->audio
AudioUse(p) == IF pres[p].audio = "dangling" THEN {"uaf_audio"} ELSE {}

\* ------------------------------------------- playback thread (381-423)
Running(th) == thr[th].pc # "none"

\* the thread's presentation is live (stop() keeps it so while the thread runs)
ThreadOn(th, pc) == thr[th].pc = pc /\ pres[thr[th].presentation].st = "live"

\* lines 388-398: load the audio device when an audio format is recorded;
\* loads: whether tsmf_load_audio_device can return a device, NULL, or either
ThreadInit(th, loads) ==
    /\ ThreadOn(th, "init")
    /\ LET p == thr[th].presentation IN
       \E loaded \in (IF pres[p].audio_format THEN loads ELSE {FALSE}) :
          /\ pres' = IF pres[p].audio_format
                     THEN [pres EXCEPT ![p].audio = IF loaded THEN "sink" ELSE "NULL"]
                     ELSE pres
          /\ sinkq' = IF loaded THEN [sinkq EXCEPT ![p] = 0] ELSE sinkq
    /\ thr' = [thr EXCEPT ![th].pc = "loop"]
    /\ UNCHANGED <<presentation_list, strm, heap, call, pushed, sent, err>>

\* line 399: while (!presentation->thread_exit); line 407 follows the loop
ThreadLoop(th) ==
    /\ ThreadOn(th, "loop")
    /\ thr' = [thr EXCEPT ![th].pc =
                 IF pres[thr[th].presentation].thread_exit = 0 THEN "pop" ELSE "eos_check"]
    /\ UNCHANGED <<presentation_list, pres, strm, heap, sinkq, call, pushed, sent, err>>

\* lines 401 and 409: one invocation of the scheduler, under the mutex
ThreadPop(th) ==
    /\ ThreadOn(th, "pop")
    /\ LET p == thr[th].presentation IN
       \E qlen \in QueueLengths(p) :
          LET r == tsmf_presentation_pop_sample(p, qlen) IN
          /\ pres' = [pres EXCEPT ![p].playback_time = r.playback_time]
          /\ IF r.sample.obj # NULL
             THEN /\ strm' = [strm EXCEPT ![r.stream].queue = r.queue]
                  /\ pushed' = [pushed EXCEPT ![r.stream] = r.queue]
                  /\ thr' = [thr EXCEPT ![th].pc = "play", ![th].sample = r.sample,
                                        ![th].tick = "popped"]
             ELSE /\ UNCHANGED <<strm, pushed>>
                  /\ thr' = [thr EXCEPT ![th].pc =
                               IF thr[th].drain THEN "audio_wait" ELSE "loop",
                                        ![th].tick = "waited"]
          /\ err' = err \cup (IF earliest_stream(p) # NULL
                                 /\ strm[earliest_stream(p)].major_type = "AUDIO"
                              THEN AudioUse(p) ELSE {})
    /\ UNCHANGED <<presentation_list, heap, sinkq, call, sent>>

RestoreNothing(pr) == [pres |-> pr, sent |-> <<>>]

\* tsmf_presentation_restore_last_video_frame (243-267): a redraw event for
\* the last delivered region when it is not empty, and the region is cleared
tsmf_presentation_restore_last_video_frame(pr) ==
    IF pr.last[3] # 0 /\ pr.last[4] # 0
    THEN [pres |-> [pr EXCEPT !.last = ZeroRect], sent |-> <<(<<"redraw", pr.last>>)>>]
    ELSE [pres |-> pr, sent |-> <<>>]

\* tsmf_sample_playback_video (279-324); accepted: tsmf_push_event returned 0
tsmf_sample_playback_video(pr, sample, h, accepted) ==
    IF sample.data = NULL
    THEN [pres |-> pr, sample |-> sample, heap |-> h, sent |-> <<>>]
    ELSE LET r == IF pr.last # pr.output
                  THEN tsmf_presentation_restore_last_video_frame(pr)
                  ELSE [pres |-> pr, sent |-> <<>>]
         IN  [pres |-> [r.pres EXCEPT !.last = pr.output],
              sample |-> [sample EXCEPT !.data = NULL, !.data_size = 0],
              heap |-> [h EXCEPT ![sample.data].data =
                           IF accepted
                           THEN (IF @ = "sample" THEN "event" ELSE "bad")
                           ELSE FreeBlock(@)],
              sent |-> Append(r.sent, <<"video", pr.output, sample.data>>)]

AudioPlayKeepsData(pr, sample, h) ==
    IF pr.audio # "NULL" /\ sample.data # NULL
    THEN [sample |-> sample,
          heap |-> [h EXCEPT ![sample.data].data =
                       IF @ = "sample" THEN "sink" ELSE "bad"],
          played |-> 1]
    ELSE [sample |-> sample, heap |-> h, played |-> 0]

\* tsmf_sample_playback_audio (349-362): Play takes the buffer when a sink is
\* attached
tsmf_sample_playback_audio(pr, sample, h) ==
    IF pr.audio # "NULL" /\ sample.data # NULL
    THEN [sample |-> [sample EXCEPT !.data = NULL, !.data_size = 0],
          heap |-> [h EXCEPT ![sample.data].data =
                       IF @ = "sample" THEN "sink" ELSE "bad"],
          played |-> 1]
    ELSE [sample |-> sample, heap |-> h, played |-> 0]

\* tsmf_sample_playback 367-375: dispatch on sample->stream->major_type;
\* accepts: the results tsmf_push_event can have (TRUE: it returned 0)
ThreadPlay(th, accepts) ==
    /\ ThreadOn(th, "play")
    /\ LET sample == thr[th].sample
           s == sample.stream
           p == strm[s].presentation
       IN  /\ CASE strm[s].major_type = "VIDEO" ->
                    \E accepted \in (IF sample.data = NULL THEN {TRUE} ELSE accepts) :
                       LET r == tsmf_sample_playback_video(pres[p], sample, heap, accepted)
                       IN  /\ pres' = [pres EXCEPT ![p] = r.pres]
                           /\ heap' = r.heap
                           /\ sent' = r.sent
                           /\ thr' = [thr EXCEPT ![th].pc = "ack", ![th].sample = r.sample]
                           /\ UNCHANGED sinkq
                           /\ err' = err \cup HeapErrors(r.heap)
                                         \cup (IF strm[s].st # "live"
                                               THEN {"uaf_stream"} ELSE {})
              [] strm[s].major_type = "AUDIO" ->
                    LET r == tsmf_sample_playback_audio(pres[p], sample, heap)
                    IN  /\ heap' = r.heap
                        /\ sinkq' = [sinkq EXCEPT ![p] = @ + r.played]
                        /\ sent' = <<>>
                        /\ thr' = [thr EXCEPT ![th].pc = "ack", ![th].sample = r.sample]
                        /\ UNCHANGED pres
                        /\ err' = err \cup HeapErrors(r.heap)
                                      \cup (IF r.played = 1 THEN AudioUse(p) ELSE {})
                                      \cup (IF strm[s].st # "live"
                                            THEN {"uaf_stream"} ELSE {})
              [] OTHER ->
                    /\ sent' = <<>>
                    /\ thr' = [thr EXCEPT ![th].pc = "ack"]
                    /\ UNCHANGED <<pres, heap, sinkq>>
                    /\ err' = err \cup (IF strm[s].st # "live"
                                        THEN {"uaf_stream"} ELSE {})
    /\ UNCHANGED <<presentation_list, strm, call, pushed>>

\* tsmf_sample_ack (131-135): tsmf_playback_ack with the sample's callback, id,
\* duration and current data_size
tsmf_sample_ack(h, sample) ==
    [h EXCEPT ![sample.obj].acks = @ + 1,
              ![sample.obj].ack = <<sample.channel_callback, sample.sample_id,
                                    sample.duration, sample.data_size>>]

\* tsmf_sample_playback 377
ThreadAck(th) ==
    /\ ThreadOn(th, "ack")
    /\ heap' = tsmf_sample_ack(heap, thr[th].sample)
    /\ thr' = [thr EXCEPT ![th].pc = "free"]
    /\ UNCHANGED <<presentation_list, pres, strm, sinkq, call, pushed, sent, err>>

\* tsmf_sample_playback 378, then back to the loop at 399 or at 409
ThreadFree(th) ==
    /\ ThreadOn(th, "free")
    /\ heap' = tsmf_sample_free(heap, thr[th].sample)
    /\ err' = err \cup HeapErrors(heap')
    /\ thr' = [thr EXCEPT ![th].sample = NoSample,
                          ![th].pc = IF thr[th].drain THEN "pop" ELSE "loop"]
    /\ UNCHANGED <<presentation_list, pres, strm, sinkq, call, pushed, sent>>

\* line 407: if (presentation->eos) drain the queues
ThreadEosCheck(th) ==
    /\ ThreadOn(th, "eos_check")
    /\ thr' = IF pres[thr[th].presentation].eos # 0
              THEN [thr EXCEPT ![th].pc = "pop", ![th].drain = TRUE]
              ELSE [thr EXCEPT ![th].pc = "audio_free"]
    /\ UNCHANGED <<presentation_list, pres, strm, heap, sinkq, call, pushed, sent, err>>

\* lines 411-413: wait until the sink's queue is empty
ThreadAudioWait(th) ==
    /\ ThreadOn(th, "audio_wait")
    /\ LET p == thr[th].presentation IN
       /\ pres[p].audio = "NULL" \/ 0 \in QueueLengths(p)
       /\ err' = err \cup AudioUse(p)
    /\ thr' = [thr EXCEPT ![th].pc = "audio_free"]
    /\ UNCHANGED <<presentation_list, pres, strm, heap, sinkq, call, pushed, sent>>

\* lines 415-417: presentation->audio->Free(presentation->audio)
ThreadAudioFree(th) ==
    /\ ThreadOn(th, "audio_free")
    /\ LET p == thr[th].presentation IN
       IF pres[p].audio # "NULL"
       THEN /\ pres' = [pres EXCEPT ![p].audio = "dangling"]
            /\ sinkq' = [sinkq EXCEPT ![p] = 0]
            /\ err' = err \cup AudioUse(p)
            /\ thr' = [thr EXCEPT ![th].pc = "audio_null"]
       ELSE /\ thr' = [thr EXCEPT ![th].pc = "exit"]
            /\ UNCHANGED <<pres, sinkq, err>>
    /\ UNCHANGED <<presentation_list, strm, heap, call, pushed, sent>>

\* line 418: presentation->audio = NULL
ThreadAudioNull(th) ==
    /\ ThreadOn(th, "audio_null")
    /\ pres' = [pres EXCEPT ![thr[th].presentation].audio = "NULL"]
    /\ thr' = [thr EXCEPT ![th].pc = "exit"]
    /\ UNCHANGED <<presentation_list, strm, heap, sinkq, call, pushed, sent, err>>

\* lines 421-422: presentation->thread_status = 0; return
ThreadExit(th) ==
    /\ ThreadOn(th, "exit")
    /\ pres' = [pres EXCEPT ![thr[th].presentation].thread_status = 0]
    /\ thr' = [thr EXCEPT ![th] = NoThread]
    /\ UNCHANGED <<presentation_list, strm, heap, sinkq, call, pushed, sent, err>>

\* a thread running on a presentation that has been freed
ThreadUseAfterFree(th) ==
    /\ Running(th)
    /\ pres[thr[th].presentation].st # "live"
    /\ err' = err \cup {"uaf_presentation"}
    /\ thr' = [thr EXCEPT ![th] = NoThread]
    /\ UNCHANGED <<presentation_list, pres, strm, heap, sinkq, call, pushed, sent>>

\* the audio device plays one queued buffer
SinkDrain(p) ==
    /\ pres[p].st = "live"
    /\ pres[p].audio = "sink"
    /\ sinkq[p] > 0
    /\ sinkq' = [sinkq EXCEPT ![p] = @ - 1]
    /\ UNCHANGED <<presentation_list, pres, strm, heap, thr, call, pushed, sent, err>>

\* ------------------------------------------------ registry (195-241)
IsIdle(t) == call[t].pc = "idle"

FirstIndex(S) == CHOOSE i \in S : \A j \in S : i <= j

FindNothing(guid) == NULL

\* tsmf_presentation_find_by_id: the first presentation of the list with the id
tsmf_presentation_find_by_id(guid) ==
    LET hits == {i \in 1..Len(presentation_list) :
                    pres[presentation_list[i]].presentation_id = guid}
    IN  IF hits = {} THEN NULL ELSE presentation_list[FirstIndex(hits)]

\* malloc: the next unused presentation / stream address
NewPresentation == FirstIndex({h \in PH : pres[h].st = "unalloc"})
NewStream == FirstIndex({h \in SH : strm[h].st = "unalloc"})

\* tsmf_presentation_new 200-205: the duplicate check
PresentationNewFind(t, guid, cb) ==
    /\ IsIdle(t)
    /\ \E h \in PH : pres[h].st = "unalloc"
    /\ call' = [call EXCEPT ![t] =
                  IF tsmf_presentation_find_by_id(guid) # NULL
                  THEN [Idle EXCEPT !.op = "presentation_new", !.arg = <<guid, cb>>]
                  ELSE [Idle EXCEPT !.pc = "pn_link", !.op = "presentation_new",
                                    !.arg = <<guid, cb>>]]
    /\ UNCHANGED <<presentation_list, pres, strm, heap, sinkq, thr, pushed, sent, err>>

\* tsmf_presentation_new 207-227: allocate and link at presentation_list_tail
PresentationNewLink(t) ==
    /\ call[t].pc = "pn_link"
    /\ \E h \in PH : pres[h].st = "unalloc"
    /\ LET h == NewPresentation IN
       /\ pres' = [pres EXCEPT ![h] =
                     [NoPresentation EXCEPT !.st = "live",
                                            !.presentation_id = call[t].arg[1],
                                            !.channel_callback = call[t].arg[2]]]
       /\ presentation_list' = Append(presentation_list, h)
       /\ call' = [call EXCEPT ![t] = [Idle EXCEPT !.op = "presentation_new",
                                                   !.arg = call[t].arg, !.ret = h]]
    /\ UNCHANGED <<strm, heap, sinkq, thr, pushed, sent, err>>

\* -------------------------------------------------- streams (521-685)
FindNoStream(p, stream_id) == NULL

\* tsmf_stream_find_by_id: the first stream of the presentation with the id
tsmf_stream_find_by_id(p, stream_id) ==
    LET hits == {i \in 1..Len(pres[p].streams) :
                    strm[pres[p].streams[i]].stream_id = stream_id}
    IN  IF hits = {} THEN NULL ELSE pres[p].streams[FirstIndex(hits)]

\* tsmf_stream_new 526-531: the duplicate check, outside the mutex
StreamNewFind(t, p, stream_id) ==
    /\ IsIdle(t)
    /\ pres[p].st = "live"
    /\ \E h \in SH : strm[h].st = "unalloc"
    /\ call' = [call EXCEPT ![t] =
                  IF tsmf_stream_find_by_id(p, stream_id) # NULL
                  THEN [Idle EXCEPT !.op = "stream_new", !.p = p,
                                    !.arg = <<stream_id, 0>>]
                  ELSE [Idle EXCEPT !.pc = "sn_link", !.op = "stream_new",
                                    !.p = p, !.arg = <<stream_id, 0>>]]
    /\ UNCHANGED <<presentation_list, pres, strm, heap, sinkq, thr, pushed, sent, err>>

\* tsmf_stream_new 533-555: allocate, then link at stream_list_tail under
\* the mutex
StreamNewLink(t) ==
    /\ call[t].pc = "sn_link"
    /\ \E h \in SH : strm[h].st = "unalloc"
    /\ LET h == NewStream
           p == call[t].p
       IN  /\ strm' = [strm EXCEPT ![h] =
                         [NoStream EXCEPT !.st = "live", !.stream_id = call[t].arg[1],
                                          !.presentation = p]]
           /\ pres' = [pres EXCEPT ![p].streams = Append(@, h)]
           /\ pushed' = [pushed EXCEPT ![h] = <<>>]
           /\ err' = err \cup (IF pres[p].st # "live" THEN {"uaf_presentation"} ELSE {})
           /\ call' = [call EXCEPT ![t] = [Idle EXCEPT !.op = "stream_new", !.p = p,
                                                       !.arg = call[t].arg, !.ret = h]]
    /\ UNCHANGED <<presentation_list, heap, sinkq, thr, sent>>

\* tsmf_stream_set_format (571-601); opens: libavcodec finds and opens the
\* codec; rated: the sample rate and channel count of an audio type are not
\* zero
StreamSetFormat(t, s, major_type, sub_type, opens, rated) ==
    /\ IsIdle(t)
    /\ strm[s].st = "live"
    /\ strm' = [strm EXCEPT ![s].major_type = major_type,
                            ![s].decoder =
                                tsmf_load_decoder(major_type, sub_type, opens)]
    /\ pres' = IF major_type = "AUDIO"
               THEN [pres EXCEPT ![strm[s].presentation].audio_format = rated]
               ELSE pres
    /\ call' = [call EXCEPT ![t] = Idle]
    /\ UNCHANGED <<presentation_list, heap, sinkq, thr, pushed, sent, err>>

\* tsmf_stream_end (603-608)
StreamEnd(t, s) ==
    /\ IsIdle(t)
    /\ strm[s].st = "live"
    /\ strm' = [strm EXCEPT ![s].eos = 1]
    /\ pres' = [pres EXCEPT ![strm[s].presentation].eos = 1]
    /\ call' = [call EXCEPT ![t] = Idle]
    /\ UNCHANGED <<presentation_list, heap, sinkq, thr, pushed, sent, err>>

\* tsmf_stream_push_sample (642-685); result and size: the decoder's outcome;
\* cap and qcap bound the samples ever allocated and the queue's length
PushSample(t, s, cb, sample_id, start_time, end_time, duration, result, size, cap, qcap) ==
    /\ IsIdle(t)
    /\ strm[s].st = "live"
    /\ Len(heap) < cap
    /\ Len(strm[s].queue) < qcap
    /\ LET k == Len(heap) + 1
           d == IF strm[s].decoder # "NULL"
                THEN tsmf_ffmpeg_decode(strm[s].decoder, result, k, size)
                ELSE [ret |-> 1, decoded_data |-> NULL, decoded_size |-> 0]
           g == tsmf_ffmpeg_get_decoded_data(d)
           sample == [obj |-> k, sample_id |-> sample_id, start_time |-> start_time,
                      end_time |-> end_time, duration |-> duration,
                      data_size |-> g.size, data |-> g.buf, stream |-> s,
                      channel_callback |-> cb]
       IN  IF d.ret # 0
           THEN /\ call' = [call EXCEPT ![t] = [Idle EXCEPT !.op = "push_sample",
                                                            !.s = s]]
                /\ UNCHANGED <<strm, heap, pushed>>
           ELSE /\ call' = [call EXCEPT ![t] = Idle]
                /\ heap' = Append(heap, [obj |-> "live",
                                         data |-> IF g.buf # NULL THEN "sample" ELSE "none",
                                         size |-> g.size, acks |-> 0, ack |-> <<>>])
                /\ strm' = [strm EXCEPT ![s].queue = Enqueue(@, sample)]
                /\ pushed' = [pushed EXCEPT ![s] = Append(@, sample)]
    /\ UNCHANGED <<presentation_list, pres, sinkq, thr, sent, err>>

\* tsmf_stream_free called directly
StreamFree(t, s) ==
    /\ IsIdle(t)
    /\ strm[s].st = "live"
    /\ call' = [call EXCEPT ![t] = [Idle EXCEPT !.pc = "sf_drain", !.op = "stream_free",
                                                !.p = strm[s].presentation, !.s = s]]
    /\ UNCHANGED <<presentation_list, pres, strm, heap, sinkq, thr, pushed, sent, err>>

\* tsmf_stream_free 616-634: under the mutex, free the queued samples and
\* unlink the stream
StreamFreeDrain(t) ==
    /\ call[t].pc = "sf_drain"
    /\ LET s == call[t].s
           p == call[t].p
       IN  /\ heap' = FreeAll(heap, strm[s].queue)
           /\ strm' = [strm EXCEPT ![s].queue = <<>>]
           /\ pres' = [pres EXCEPT ![p].streams = Remove(@, s)]
           /\ pushed' = [pushed EXCEPT ![s] = <<>>]
           /\ err' = err \cup HeapErrors(heap')
                         \cup (IF strm[s].st # "live" THEN {"uaf_stream"} ELSE {})
    /\ call' = [call EXCEPT ![t].pc = "sf_free"]
    /\ UNCHANGED <<presentation_list, sinkq, thr, sent>>

\* tsmf_stream_free 636-639: free the decoder and the stream
StreamFreeRelease(t) ==
    /\ call[t].pc = "sf_free"
    /\ strm' = [strm EXCEPT ![call[t].s].st = IF @ = "live" THEN "freed" ELSE "bad",
                            ![call[t].s].decoder = "NULL"]
    /\ err' = err \cup (IF strm[call[t].s].st # "live" THEN {"double_free"} ELSE {})
    /\ call' = [call EXCEPT ![t] =
                  IF call[t].op = "presentation_free"
                  THEN [call[t] EXCEPT !.pc = "pf_streams", !.s = NULL]
                  ELSE Idle]
    /\ UNCHANGED <<presentation_list, pres, heap, sinkq, thr, pushed, sent>>

\* --------------------------------------- presentation lifecycle (425-519)
FreeSlot == FirstIndex({th \in TH : thr[th].pc = "none"})

StartCheckAlways(pr) == TRUE

\* tsmf_presentation_start 430: if (presentation->thread_status == 0)
StartCheckPasses(pr) == pr.thread_status = 0

StartCheck(t, p) ==
    /\ IsIdle(t)
    /\ pres[p].st = "live"
    /\ call' = [call EXCEPT ![t] =
                  IF StartCheckPasses(pres[p])
                  THEN [Idle EXCEPT !.pc = "st_spawn", !.op = "start", !.p = p]
                  ELSE Idle]
    /\ UNCHANGED <<presentation_list, pres, strm, heap, sinkq, thr, pushed, sent, err>>

\* tsmf_presentation_start 432-436: set the flags and create the thread
StartSpawn(t) ==
    /\ call[t].pc = "st_spawn"
    /\ \E th \in TH : thr[th].pc = "none"
    /\ LET p == call[t].p IN
       /\ pres' = [pres EXCEPT ![p].thread_status = 1, ![p].thread_exit = 0,
                               ![p].playback_time = 0]
       /\ thr' = [thr EXCEPT ![FreeSlot] = [NoThread EXCEPT !.pc = "init",
                                                           !.presentation = p]]
       /\ err' = err \cup (IF pres[p].st # "live" THEN {"uaf_presentation"} ELSE {})
    /\ call' = [call EXCEPT ![t] = Idle]
    /\ UNCHANGED <<presentation_list, strm, heap, sinkq, pushed, sent>>

\* tsmf_presentation_stop 443 (op "stop"), also as the first statement of
\* tsmf_presentation_free (op "presentation_free")
StopSet(t, p, op) ==
    /\ IsIdle(t)
    /\ pres[p].st = "live"
    /\ pres' = [pres EXCEPT ![p].thread_exit = 1]
    /\ call' = [call EXCEPT ![t] = [Idle EXCEPT !.pc = "sp_wait", !.op = op, !.p = p]]
    /\ UNCHANGED <<presentation_list, strm, heap, sinkq, thr, pushed, sent, err>>

\* tsmf_presentation_stop 444-447: leave the wait loop once thread_status is 0
StopWait(t) ==
    /\ call[t].pc = "sp_wait"
    /\ ~(pres[call[t].p].thread_status > 0)
    /\ call' = [call EXCEPT ![t].pc = "sp_restore"]
    /\ err' = err \cup (IF pres[call[t].p].st # "live" THEN {"uaf_presentation"} ELSE {})
    /\ UNCHANGED <<presentation_list, pres, strm, heap, sinkq, thr, pushed, sent>>

\* tsmf_presentation_stop 448
StopRestore(t) ==
    /\ call[t].pc = "sp_restore"
    /\ LET p == call[t].p
           r == tsmf_presentation_restore_last_video_frame(pres[p])
       IN  /\ pres' = [pres EXCEPT ![p] = r.pres]
           /\ sent' = r.sent
           /\ err' = err \cup (IF pres[p].st # "live" THEN {"uaf_presentation"} ELSE {})
    /\ call' = [call EXCEPT ![t] =
                  IF call[t].op = "presentation_free"
                  THEN [call[t] EXCEPT !.pc = "pf_unlink"]
                  ELSE Idle]
    /\ UNCHANGED <<presentation_list, strm, heap, sinkq, thr, pushed>>

\* tsmf_presentation_set_geometry_info (451-458)
SetGeometry(t, p, rect) ==
    /\ IsIdle(t)
    /\ pres[p].st = "live"
    /\ pres' = [pres EXCEPT ![p].output = rect]
    /\ call' = [call EXCEPT ![t] = Idle]
    /\ UNCHANGED <<presentation_list, strm, heap, sinkq, thr, pushed, sent, err>>

FlushKeepsEos(st) == [st EXCEPT !.queue = <<>>]

\* tsmf_stream_flush (467-479): the stream after its queue is freed
tsmf_stream_flush(st) == [st EXCEPT !.queue = <<>>, !.eos = 0]

RECURSIVE FlushHeap(_, _, _)
\* the sample objects and buffers after tsmf_stream_flush of list[i..]
FlushHeap(h, list, i) ==
    IF i > Len(list) THEN h
    ELSE FlushHeap(FreeAll(h, strm[list[i]].queue), list, i + 1)

\* tsmf_presentation_flush 486-489: flush every stream under the mutex
FlushDrain(t, p) ==
    /\ IsIdle(t)
    /\ pres[p].st = "live"
    /\ LET in == Range(pres[p].streams) IN
       /\ strm' = [s \in SH |-> IF s \in in THEN tsmf_stream_flush(strm[s]) ELSE strm[s]]
       /\ pushed' = [s \in SH |-> IF s \in in THEN <<>> ELSE pushed[s]]
    /\ heap' = FlushHeap(heap, pres[p].streams, 1)
    /\ err' = err \cup HeapErrors(heap')
    /\ call' = [call EXCEPT ![t] =
                  [Idle EXCEPT !.pc = "fl_audio", !.op = "flush", !.p = p,
                               !.arg = IF call[t].op = "flush" /\ call[t].p = p
                                       THEN <<1, 0>> ELSE <<0, 0>>]]
    /\ UNCHANGED <<presentation_list, pres, sinkq, thr, sent>>

\* tsmf_presentation_flush 491-492: flush the audio sink when one is attached
FlushAudio(t) ==
    /\ call[t].pc = "fl_audio"
    /\ LET p == call[t].p IN
       /\ sinkq' = IF pres[p].audio # "NULL" THEN [sinkq EXCEPT ![p] = 0] ELSE sinkq
       /\ err' = err \cup AudioUse(p)
                     \cup (IF pres[p].st # "live" THEN {"uaf_presentation"} ELSE {})
    /\ call' = [call EXCEPT ![t].pc = "fl_eos"]
    /\ UNCHANGED <<presentation_list, pres, strm, heap, thr, pushed, sent>>

\* tsmf_presentation_flush 494: presentation->eos = 0
FlushEos(t) ==
    /\ call[t].pc = "fl_eos"
    /\ pres' = [pres EXCEPT ![call[t].p].eos = 0]
    /\ err' = err \cup (IF pres[call[t].p].st # "live" THEN {"uaf_presentation"} ELSE {})
    /\ call' = [call EXCEPT ![t] = [Idle EXCEPT !.op = "flush", !.p = call[t].p]]
    /\ UNCHANGED <<presentation_list, strm, heap, sinkq, thr, pushed, sent>>

\* tsmf_presentation_free 502-510: unlink from the registry
FreeUnlink(t) ==
    /\ call[t].pc = "pf_unlink"
    /\ presentation_list' = Remove(presentation_list, call[t].p)
    /\ call' = [call EXCEPT ![t].pc = "pf_streams"]
    /\ UNCHANGED <<pres, strm, heap, sinkq, thr, pushed, sent, err>>

\* tsmf_presentation_free 512-513: while (stream_list_head) tsmf_stream_free
FreeStreams(t) ==
    /\ call[t].pc = "pf_streams"
    /\ LET list == pres[call[t].p].streams IN
       call' = [call EXCEPT ![t] =
                  IF list # <<>>
                  THEN [call[t] EXCEPT !.pc = "sf_drain", !.s = Head(list)]
                  ELSE [call[t] EXCEPT !.pc = "pf_destroy"]]
    /\ UNCHANGED <<presentation_list, pres, strm, heap, sinkq, thr, pushed, sent, err>>

\* tsmf_presentation_free 515-518: destroy the mutex, free the presentation
FreeDestroy(t) ==
    /\ call[t].pc = "pf_destroy"
    /\ pres' = [pres EXCEPT ![call[t].p].st = IF @ = "live" THEN "freed" ELSE "bad"]
    /\ err' = err \cup (IF pres[call[t].p].st # "live" THEN {"double_free"} ELSE {})
    /\ call' = [call EXCEPT ![t] = [Idle EXCEPT !.ret = NULL]]
    /\ UNCHANGED <<presentation_list, strm, heap, sinkq, thr, pushed, sent>>

\* ------------------------------------------------------ specifications
\* One presentation (at address 1, id 1) with two streams whose formats have
\* been set, its thread not started: the state after tsmf_presentation_new,
\* two tsmf_stream_new and two tsmf_stream_set_format calls.
TwoStreams(types) ==
    /\ presentation_list = <<1>>
    /\ pres = [h \in PH |->
                 IF h = 1
                 THEN [NoPresentation EXCEPT !.st = "live", !.presentation_id = 1,
                                             !.channel_callback = 1,
                                             !.audio_format = ("AUDIO" \in Range(types)),
                                             !.streams = <<1, 2>>]
                 ELSE NoPresentation]
    /\ strm = [h \in SH |->
                 IF h \in {1, 2}
                 THEN [NoStream EXCEPT !.st = "live", !.stream_id = h, !.presentation = 1,
                                       !.decoder = types[h], !.major_type = types[h]]
                 ELSE NoStream]
    /\ heap = <<>>
    /\ sinkq = [h \in PH |-> 0]
    /\ thr = [th \in TH |-> NoThread]
    /\ call = [t \in Callers |-> Idle]
    /\ pushed = [h \in SH |-> <<>>]
    /\ sent = <<>>
    /\ err = {}

\* the playback loop, lines 388-406
ThreadRun(th, loads, accepts) ==
    \/ ThreadInit(th, loads)
    \/ ThreadLoop(th)
    \/ ThreadPop(th)
    \/ ThreadPlay(th, accepts)
    \/ ThreadAck(th)
    \/ ThreadFree(th)

\* the thread's way out, lines 407-422
ThreadLeave(th) ==
    \/ ThreadEosCheck(th)
    \/ ThreadAudioWait(th)
    \/ ThreadAudioFree(th)
    \/ ThreadAudioNull(th)
    \/ ThreadExit(th)

\* Scheduling: one thread pushes samples on both streams and ends the first
\* (the audio or the video stream) while the playback thread, once started,
\* runs the scheduler.
Init == \E types \in {<<"AUDIO", "VIDEO">>, <<"VIDEO", "AUDIO">>} : TwoStreams(types)

Next ==
    \/ \E s \in SH, start_time \in Times, duration \in Durations :
          PushSample("c1", s, 1, 1, start_time, start_time + duration, duration,
                     "decoded", 1, MaxSamples, MaxSamples)
    \/ StreamEnd("c1", 1)
    \/ \E p \in PH : StartCheck("c1", p)
    \/ StartSpawn("c1")
    \/ \E th \in TH : ThreadRun(th, {TRUE}, {TRUE})

Spec == Init /\ [][Next]_vars

\* Audio lookahead: an audio stream and a video stream that stays empty;
\* enough audio samples are pushed and played for the sink to hold
\* AudioQueueLimit buffers while the device drains it at its own pace.
SmallTimes == {0, 1}

InitLookahead == TwoStreams(<<"AUDIO", "VIDEO">>)

NextLookahead ==
    \/ \E start_time \in SmallTimes :
          PushSample("c1", 1, 1, 1, start_time, start_time, 0, "decoded", 1,
                     MaxLookaheadSamples, MaxLookaheadQueue)
    \/ StreamEnd("c1", 2)
    \/ \E p \in PH : StartCheck("c1", p)
    \/ StartSpawn("c1")
    \/ \E th \in TH : ThreadRun(th, BOOLEAN, {TRUE})
    \/ \E p \in PH : SinkDrain(p)

SpecLookahead == InitLookahead /\ [][NextLookahead]_vars

\* Flush: samples are pushed, streams ended and the presentation flushed, again
\* and again, while the playback thread runs, with or without an audio sink
\* and with video frame events accepted or rejected.
InitFlush == TwoStreams(<<"AUDIO", "VIDEO">>)

NextFlush ==
    \/ \E s \in SH, start_time \in SmallTimes :
          PushSample("c1", s, 1, 1, start_time, start_time, 0, "decoded", 1,
                     MaxSamples, MaxSamples)
    \/ \E s \in SH : StreamEnd("c1", s)
    \/ \E p \in PH : StartCheck("c1", p)
    \/ StartSpawn("c1")
    \/ \E p \in PH : FlushDrain("c1", p)
    \/ FlushAudio("c1")
    \/ FlushEos("c1")
    \/ \E th \in TH : ThreadRun(th, BOOLEAN, BOOLEAN)

SpecFlush == InitFlush /\ [][NextFlush]_vars

\* Teardown: samples are pushed and streams ended; the presentation is
\* started, stopped and destroyed, with its thread in any position.
InitFree == TwoStreams(<<"AUDIO", "VIDEO">>)

NextFree ==
    \/ \E s \in SH, start_time \in SmallTimes :
          PushSample("c1", s, 1, 1, start_time, start_time, 0, "decoded", 1,
                     MaxSamples, MaxSamples)
    \/ \E s \in SH : StreamEnd("c1", s)
    \/ \E p \in PH : StartCheck("c1", p)
    \/ StartSpawn("c1")
    \/ \E p \in PH : StopSet("c1", p, "stop")
    \/ \E p \in PH : StopSet("c1", p, "presentation_free")
    \/ StopWait("c1")
    \/ StopRestore("c1")
    \/ FreeUnlink("c1")
    \/ FreeStreams("c1")
    \/ StreamFreeDrain("c1")
    \/ StreamFreeRelease("c1")
    \/ FreeDestroy("c1")
    \/ \E th \in TH : ThreadRun(th, {TRUE}, BOOLEAN)
    \/ \E th \in TH : ThreadLeave(th)

SpecFree == InitFree /\ [][NextFree]_vars

\* Interleaving scenario: the start times of the frames of the video stream
\* and of the samples of the audio stream; each lasts until the next begins.
VideoTimes == <<0, 100, 200>>
AudioTimes == <<0, 50, 100, 150, 200>>
ScenarioTimes(s) == IF strm[s].major_type = "AUDIO" THEN AudioTimes ELSE VideoTimes
Interval(times) == times[2] - times[1]
ScenarioSamples == Len(VideoTimes) + Len(AudioTimes)
Primed == Len(heap) = ScenarioSamples

\* the streams are created in either order and primed with all their samples,
\* in any interleaving, before the presentation is started
InitScenario == \E types \in {<<"AUDIO", "VIDEO">>, <<"VIDEO", "AUDIO">>} : TwoStreams(types)

NextScenario ==
    \/ \E s \in {1, 2} :
          LET times == ScenarioTimes(s)
              n == Len(strm[s].queue) + 1
          IN  /\ n <= Len(times)
              /\ PushSample("c1", s, 1, 1, times[n], times[n] + Interval(times),
                            Interval(times), "decoded", 1, ScenarioSamples, Len(times))
    \/ \E p \in PH : Primed /\ StartCheck("c1", p)
    \/ StartSpawn("c1")
    \/ \E th \in TH : ThreadRun(th, BOOLEAN, {TRUE})

SpecScenario == InitScenario /\ [][NextScenario]_vars

\* the state before any presentation exists
Empty ==
    /\ presentation_list = <<>>
    /\ pres = [h \in PH |-> NoPresentation]
    /\ strm = [h \in SH |-> NoStream]
    /\ heap = <<>>
    /\ sinkq = [h \in PH |-> 0]
    /\ thr = [th \in TH |-> NoThread]
    /\ call = [t \in Callers |-> Idle]
    /\ pushed = [h \in SH |-> <<>>]
    /\ sent = <<>>
    /\ err = {}

\* Registry: one thread creates presentations and streams, and sets the
\* format of the first stream, pushes samples on it and ends it.
InitRegistry == Empty

NextRegistry ==
    \/ \E guid \in Guids : PresentationNewFind("c1", guid, 1)
    \/ PresentationNewLink("c1")
    \/ \E p \in PH, stream_id \in StreamIds : StreamNewFind("c1", p, stream_id)
    \/ StreamNewLink("c1")
    \/ StreamSetFormat("c1", 1, "VIDEO", "WVC1", TRUE, FALSE)
    \/ PushSample("c1", 1, 1, 1, 1, 1, 0, "decoded", 1, MaxSamples, MaxSamples)
    \/ StreamEnd("c1", 1)

SpecRegistry == InitRegistry /\ [][NextRegistry]_vars

\* Concurrent creation: two threads create presentations and streams.
InitCreate == Empty

NextCreate ==
    \E t \in Callers :
        \/ \E guid \in Guids : PresentationNewFind(t, guid, 1)
        \/ PresentationNewLink(t)
        \/ \E p \in PH, stream_id \in StreamIds : StreamNewFind(t, p, stream_id)
        \/ StreamNewLink(t)

SpecCreate == InitCreate /\ [][NextCreate]_vars

\* Concurrent start and stop: two threads start and stop one presentation
\* while an audio sample is pushed and its playback threads run.
InitStart == TwoStreams(<<"AUDIO", "VIDEO">>)

NextStart ==
    \/ PushSample("c1", 1, 1, 1, 1, 1, 0, "decoded", 1, 1, 1)
    \/ StreamEnd("c1", 1)
    \/ \E t \in Callers :
          \/ \E p \in PH : StartCheck(t, p)
          \/ StartSpawn(t)
          \/ \E p \in PH : StopSet(t, p, "stop")
          \/ StopWait(t)
          \/ StopRestore(t)
    \/ \E th \in TH : ThreadRun(th, {TRUE}, {TRUE})
    \/ \E th \in TH : ThreadLeave(th)

SpecStart == InitStart /\ [][NextStart]_vars

\* Formats: one thread sets the formats of the two streams of a presentation,
\* with any major type and sub-type, and pushes units the decoder accepts or
\* rejects.
InitFormat ==
    /\ presentation_list = <<1>>
    /\ pres = [h \in PH |->
                 IF h = 1
                 THEN [NoPresentation EXCEPT !.st = "live", !.presentation_id = 1,
                                             !.channel_callback = 1,
                                             !.streams = <<1, 2>>]
                 ELSE NoPresentation]
    /\ strm = [h \in SH |->
                 IF h \in {1, 2}
                 THEN [NoStream EXCEPT !.st = "live", !.stream_id = h, !.presentation = 1]
                 ELSE NoStream]
    /\ heap = <<>>
    /\ sinkq = [h \in PH |-> 0]
    /\ thr = [th \in TH |-> NoThread]
    /\ call = [t \in Callers |-> Idle]
    /\ pushed = [h \in SH |-> <<>>]
    /\ sent = <<>>
    /\ err = {}

NextFormat ==
    \/ \E s \in {1, 2}, major_type \in {"VIDEO", "AUDIO", "UNKNOWN"},
          sub_type \in SubTypes, opens \in BOOLEAN :
          StreamSetFormat("c1", s, major_type, sub_type, opens, TRUE)
    \/ \E s \in {1, 2}, result \in {"decoded", "failed"} :
          PushSample("c1", s, 1, 1, 1, 1, 0, result, 1, MaxSamples, MaxSamples)

SpecFormat == InitFormat /\ [][NextFormat]_vars

\* Stop under fair scheduling: thread c1 stops the presentation while thread
\* c2 starts and flushes it and pushes an audio sample. Every playback
\* thread keeps running, the audio device keeps playing, and a caller inside
\* start, stop or flush goes on whenever it can.
InitStop == TwoStreams(<<"AUDIO", "VIDEO">>)

NextStop ==
    \/ PushSample("c2", 1, 1, 1, 1, 1, 0, "decoded", 1, 1, 1)
    \/ StreamEnd("c2", 1)
    \/ \E p \in PH : StartCheck("c2", p)
    \/ StartSpawn("c2")
    \/ \E p \in PH : FlushDrain("c2", p)
    \/ FlushAudio("c2")
    \/ FlushEos("c2")
    \/ \E p \in PH : StopSet("c1", p, "stop")
    \/ StopWait("c1")
    \/ StopRestore("c1")
    \/ \E th \in TH : ThreadRun(th, {TRUE}, {TRUE})
    \/ \E th \in TH : ThreadLeave(th)
    \/ \E p \in PH : SinkDrain(p)

FairStop ==
    /\ \A th \in TH : WF_vars(ThreadRun(th, {TRUE}, {TRUE}) \/ ThreadLeave(th))
    /\ \A p \in PH : WF_vars(SinkDrain(p))
    /\ WF_vars(StopWait("c1") \/ StopRestore("c1"))
    /\ WF_vars(StartSpawn("c2") \/ FlushAudio("c2") \/ FlushEos("c2"))

SpecStop == InitStop /\ [][NextStop]_vars /\ FairStop

\* End-of-stream drain: one thread pushes video samples, ends the video
\* stream, starts and stops the presentation; the audio stream receives
\* nothing and is not ended. The caller is inside tsmf_presentation_stop
\* while the playback thread leaves, so nothing is pushed meanwhile.
InitDrain == TwoStreams(<<"AUDIO", "VIDEO">>)

NextDrain ==
    \/ \E start_time \in Times :
          PushSample("c1", 2, 1, 1, start_time, start_time, 0, "decoded", 1,
                     MaxSamples, MaxSamples)
    \/ StreamEnd("c1", 2)
    \/ \E p \in PH : StartCheck("c1", p)
    \/ StartSpawn("c1")
    \/ \E p \in PH : StopSet("c1", p, "stop")
    \/ StopWait("c1")
    \/ StopRestore("c1")
    \/ \E th \in TH : ThreadRun(th, {TRUE}, {TRUE})
    \/ \E th \in TH : ThreadLeave(th)

SpecDrain == InitDrain /\ [][NextDrain]_vars

\* Video dispatch: video samples are pushed and played while the caller moves
\* the output region; tsmf_push_event may refuse an event.
InitVideo == TwoStreams(<<"AUDIO", "VIDEO">>)

NextVideo ==
    \/ \E start_time \in SmallTimes :
          PushSample("c1", 2, 1, 1, start_time, start_time, 0, "decoded", 1,
                     MaxSamples, MaxSamples)
    \/ \E p \in PH, rect \in Rects : SetGeometry("c1", p, rect)
    \/ \E p \in PH : StartCheck("c1", p)
    \/ StartSpawn("c1")
    \/ \E th \in TH : ThreadRun(th, {TRUE}, BOOLEAN)

SpecVideo == InitVideo /\ [][NextVideo]_vars

\* A stream that stays silent: samples arrive on the first stream only, the
\* second one never receives a sample and is never ended, and the presentation
\* is never stopped. The playback thread and the audio device are scheduled
\* fairly.
InitStall == \E types \in {<<"AUDIO", "VIDEO">>, <<"VIDEO", "AUDIO">>} : TwoStreams(types)

NextStall ==
    \/ \E start_time \in Times, duration \in Durations :
          PushSample("c1", 1, 1, 1, start_time, start_time + duration, duration,
                     "decoded", 1, MaxSamples, MaxSamples)
    \/ \E p \in PH : StartCheck("c1", p)
    \/ StartSpawn("c1")
    \/ \E th \in TH : ThreadRun(th, BOOLEAN, {TRUE})
    \/ \E p \in PH : SinkDrain(p)

FairStall ==
    /\ \A th \in TH : WF_vars(ThreadRun(th, BOOLEAN, {TRUE}))
    /\ \A p \in PH : WF_vars(SinkDrain(p))

SpecStall == InitStall /\ [][NextStall]_vars /\ FairStall

\* Stream destruction under playback: samples are pushed, the presentation
\* is started and a stream is destroyed with tsmf_stream_free while the
\* playback thread pops and dispatches.
InitStreamFree == TwoStreams(<<"AUDIO", "VIDEO">>)

NextStreamFree ==
    \/ \E s \in SH, start_time \in SmallTimes :
          PushSample("c1", s, 1, 1, start_time, start_time, 0, "decoded", 1,
                     MaxSamples, MaxSamples)
    \/ \E p \in PH : StartCheck("c1", p)
    \/ StartSpawn("c1")
    \/ \E s \in SH : StreamFree("c1", s)
    \/ StreamFreeDrain("c1")
    \/ StreamFreeRelease("c1")
    \/ \E th \in TH : ThreadRun(th, BOOLEAN, {TRUE})

SpecStreamFree == InitStreamFree /\ [][NextStreamFree]_vars

\* ------------------------------------------------------------- claims
\* a step of thread th that is one invocation of tsmf_presentation_pop_sample
PopStep(th) == thr[th].pc = "pop" /\ thr'[th].pc # "pop"

\* it returned a sample
Popped(th) == thr'[th].pc = "play"

\* the stream queues, eos flags and playback_time are untouched by the step
SchedulerStateUnchanged == strm' = strm /\ pres' = pres /\ heap' = heap

\* C1: an invocation of the scheduler that pops sample s leaves
\* playback_time = max(old playback_time, s.end_time), one that pops nothing
\* leaves it unchanged; playback_time never decreases across invocations.
C1_PlaybackTimeMax ==
    [][\A th \in TH :
          PopStep(th) =>
             LET p == thr[th].presentation IN
             /\ pres'[p].playback_time >= pres[p].playback_time
             /\ pres'[p].playback_time =
                   IF Popped(th)
                   THEN Max(pres[p].playback_time, thr'[th].sample.end_time)
                   ELSE pres[p].playback_time]_vars

\* a sample was popped whose end_time lies before the playback_time
C1_Witness ==
    \E th \in TH :
        /\ thr[th].pc = "play"
        /\ thr[th].sample.end_time < pres[thr[th].presentation].playback_time

NonDecreasing(q) == \A i \in 1..Len(q) - 1 : q[i].start_time <= q[i + 1].start_time

\* C2: a stream's queue is its queue when it was last popped, flushed or
\* created followed by the samples pushed since, in push order, and is
\* non-decreasing in start_time when those are.
C2_QueueIsPushOrder ==
    \A s \in SH :
        strm[s].st = "live" =>
            /\ strm[s].queue = pushed[s]
            /\ NonDecreasing(pushed[s]) => NonDecreasing(strm[s].queue)

\* two samples pushed in a row are queued in that order
C2_Witness ==
    \E s \in SH :
        /\ Len(strm[s].queue) >= 2
        /\ strm[s].queue[1].obj < strm[s].queue[2].obj
        /\ strm[s].queue[1].start_time < strm[s].queue[2].start_time

\* some stream of p is pending, and another has a head later than playback_time
StarvedBy(p, b) ==
    /\ has_pending_stream(p)
    /\ strm[b].queue # <<>>
    /\ Head(strm[b].queue).start_time > pres[p].playback_time

MustWait(p) ==
    LET e == earliest_stream(p) IN
    /\ e # NULL
    /\ strm[e].major_type # "AUDIO"
    /\ has_pending_stream(p)
    /\ pres[p].playback_time # 0
    /\ Head(strm[e].queue).start_time > pres[p].playback_time

SinkFull(p) == pres[p].audio # "NULL" /\ sinkq[p] >= AudioQueueLimit

\* C3: when the earliest stream is an audio stream, the scheduler pops
\* nothing and changes nothing if a sink is attached and reports 10 or more
\* queued buffers; otherwise it pops that stream's head, whatever the pending
\* streams and playback_time.
C3_AudioLookahead ==
    [][\A th \in TH :
          PopStep(th) =>
             LET p == thr[th].presentation
                 e == earliest_stream(p)
             IN  (e # NULL /\ strm[e].major_type = "AUDIO") =>
                    IF SinkFull(p)
                    THEN ~Popped(th) /\ SchedulerStateUnchanged
                    ELSE Popped(th) /\ thr'[th].sample = Head(strm[e].queue)]_vars

\* the scheduler has just left an audio head in place for a full sink
C3_Witness ==
    \E th \in TH :
        LET p == thr[th].presentation IN
        /\ thr[th].pc = "loop"
        /\ thr[th].tick = "waited"
        /\ earliest_stream(p) # NULL
        /\ strm[earliest_stream(p)].major_type = "AUDIO"
        /\ SinkFull(p)

\* every stream of p has an empty queue and a cleared eos flag
Flushed(p) ==
    \A s \in Range(pres[p].streams) : strm[s].queue = <<>> /\ strm[s].eos = 0

\* C5: when flush() returns, every queue of the presentation is empty and the
\* streams' eos flags are cleared, and no memory error has happened; a flush()
\* called right after a flush() changes no stream, no sample and no field of
\* the presentation, and returns in the same state.
C5_FlushIdempotent ==
    [][\A t \in Callers :
          LET p == call[t].p IN
          /\ (call[t].pc = "fl_eos" /\ call'[t].pc = "idle")
             => (Flushed(p)' /\ pres'[p].eos = 0 /\ err' = {})
          /\ (call'[t].op = "flush" /\ call'[t].arg[1] = 1 /\ call'[t] # call[t])
             => (strm' = strm /\ heap' = heap /\ pres' = pres
                 /\ presentation_list' = presentation_list /\ err' = err)
          /\ (call[t].op = "flush" /\ call[t].arg[1] = 1 /\ call'[t].pc = "idle"
              /\ call'[t] # call[t])
             => (strm' = strm /\ heap' = heap /\ pres' = pres /\ Flushed(p)')]_vars

\* a second flush() in a row has drained the (empty) queues, after a first
\* one that freed samples and cleared an eos flag
C5_Witness ==
    \E t \in Callers :
        /\ call[t].pc = "fl_audio"
        /\ call[t].arg[1] = 1
        /\ \E k \in 1..Len(heap) : heap[k].obj = "freed" /\ heap[k].acks = 0
        /\ pres[call[t].p].thread_status = 1

\* C6: once tsmf_presentation_free has returned, every sample object has been
\* freed once and every payload buffer has been freed once or handed to the
\* audio sink or to a video frame event; nothing is freed twice at any time.
C6_TeardownReleasesAll ==
    /\ \A k \in 1..Len(heap) : heap[k].obj # "bad" /\ heap[k].data # "bad"
    /\ "double_free" \notin err
    /\ \A p \in PH :
          pres[p].st = "freed" =>
             \A k \in 1..Len(heap) :
                /\ heap[k].obj = "freed"
                /\ heap[k].data \in {"none", "freed", "sink", "event"}

\* a presentation was destroyed whose thread had played a sample and whose
\* queues still held one
C6_Witness ==
    \E p \in PH :
        /\ pres[p].st = "freed"
        /\ \E k \in 1..Len(heap) : heap[k].acks = 0 /\ heap[k].data = "freed"
        /\ \E k \in 1..Len(heap) : heap[k].acks = 1

\* the number of samples of the primed presentation p popped so far
Emitted(p) ==
    ScenarioSamples - (Len(strm[pres[p].streams[1]].queue)
                       + Len(strm[pres[p].streams[2]].queue))

\* a popped video sample starts at most one video frame interval after the
\* playback_time the scheduler found
VideoNotAhead(p, sample) ==
    strm[sample.stream].major_type = "VIDEO"
    => sample.start_time - pres[p].playback_time <= Interval(VideoTimes)

\* C7 as stated: the first sample the scheduler emits is the audio sample at
\* 0 and the second the video sample at 0, and no video sample is popped more
\* than one frame interval ahead of playback_time.
C7_AsStated ==
    [][\A th \in TH :
          (PopStep(th) /\ Popped(th)) =>
             LET p == thr[th].presentation
                 sample == thr'[th].sample
             IN  /\ Emitted(p) = 0
                    => (strm[sample.stream].major_type = "AUDIO" /\ sample.start_time = 0)
                 /\ Emitted(p) = 1
                    => (strm[sample.stream].major_type = "VIDEO" /\ sample.start_time = 0)
                 /\ VideoNotAhead(p, sample)]_vars

\* C7 amended: the first sample emitted is the sample at 0 of the stream
\* that comes first in the presentation's stream list (the audio sample when
\* the audio stream was created first, the video sample when the video stream
\* was), the second is the other stream's sample at 0, and no video sample is
\* popped more than one frame interval ahead of playback_time.
C7_InterleavingScenario ==
    [][\A th \in TH :
          (PopStep(th) /\ Popped(th)) =>
             LET p == thr[th].presentation
                 sample == thr'[th].sample
             IN  /\ Emitted(p) = 0
                    => (sample.stream = pres[p].streams[1] /\ sample.start_time = 0)
                 /\ Emitted(p) = 1
                    => (sample.stream = pres[p].streams[2] /\ sample.start_time = 0)
                 /\ VideoNotAhead(p, sample)]_vars

\* the audio stream was created first, the audio sample at 0 and the video
\* sample at 0 were emitted, and the last video frame has been popped
C7_Witness ==
    \E th \in TH :
        LET p == thr[th].presentation IN
        /\ thr[th].pc = "play"
        /\ strm[pres[p].streams[1]].major_type = "AUDIO"
        /\ thr[th].sample.start_time = VideoTimes[3]
        /\ strm[thr[th].sample.stream].major_type = "VIDEO"
        /\ Emitted(p) >= 2

\* caller t returns from tsmf_presentation_new / tsmf_stream_new in this step
Returns(t, op) ==
    call'[t] # call[t] /\ call'[t].pc = "idle" /\ call'[t].op = op

\* everything but the callers' own records is left as it was
NothingMutated ==
    UNCHANGED <<presentation_list, pres, strm, heap, sinkq, thr, pushed, sent, err>>

\* C8: tsmf_presentation_new with an id that a presentation of the registry
\* has, and tsmf_stream_new with a stream id that a stream of the presentation
\* has, return NULL and change neither the registry nor any presentation,
\* stream, queue, eos flag or playback_time.
C8_DuplicateId ==
    [][\A t \in Callers :
          /\ (/\ Returns(t, "presentation_new")
              /\ \E h \in Range(presentation_list) :
                    pres[h].presentation_id = call'[t].arg[1])
             => (call'[t].ret = NULL /\ NothingMutated)
          /\ (/\ Returns(t, "stream_new")
              /\ \E h \in Range(pres[call'[t].p].streams) :
                    strm[h].stream_id = call'[t].arg[1])
             => (call'[t].ret = NULL /\ NothingMutated)]_vars

\* the creation of a presentation was refused whose id belongs to a
\* presentation that holds a stream with a queued sample
C8_Witness ==
    \E t \in Callers :
        /\ call[t].pc = "idle"
        /\ call[t].op = "presentation_new"
        /\ call[t].ret = NULL
        /\ \E h \in Range(presentation_list) :
              /\ pres[h].presentation_id = call[t].arg[1]
              /\ \E s \in Range(pres[h].streams) : strm[s].queue # <<>>

\* C9: no two presentations of the registry have the same id and no two
\* streams of one presentation the same stream id.
C9_IdsUnique ==
    /\ \A i, j \in 1..Len(presentation_list) :
          i # j => pres[presentation_list[i]].presentation_id
                   # pres[presentation_list[j]].presentation_id
    /\ \A p \in Range(presentation_list) :
          \A i, j \in 1..Len(pres[p].streams) :
             i # j => strm[pres[p].streams[i]].stream_id
                      # strm[pres[p].streams[j]].stream_id

\* the playback threads that run on presentation p
PlaybackThreads(p) == {th \in TH : thr[th].pc # "none" /\ thr[th].presentation = p}

\* C10: at most one playback thread runs on a presentation.
C10_OnePlaybackThread ==
    \A p \in PH : Cardinality(PlaybackThreads(p)) <= 1

\* C11: tsmf_ffmpeg_set_format returns 1 for a sub-type it has no codec for,
\* tsmf_stream_set_format then leaves the stream without a decoder, and a
\* tsmf_stream_push_sample on a stream without a decoder enqueues nothing:
\* the queues and the sample heap are as before.
C11_UnknownSubType ==
    [][\A t \in Callers, s \in SH :
          /\ \A major_type \in {"VIDEO", "AUDIO", "UNKNOWN"}, opens \in BOOLEAN,
                sub_type \in SubTypes \ KnownSubTypes :
                StreamSetFormat(t, s, major_type, sub_type, opens, TRUE)
                => /\ tsmf_ffmpeg_set_format(major_type, sub_type, opens) # 0
                   /\ strm'[s].decoder = "NULL"
                   /\ strm'[s].queue = strm[s].queue
          /\ \A result \in {"decoded", "failed"} :
                (/\ strm[s].decoder = "NULL"
                 /\ PushSample(t, s, 1, 1, 1, 1, 0, result, 1, MaxSamples, MaxSamples))
                => (strm' = strm /\ heap' = heap /\ pushed' = pushed
                    /\ call'[t].op = "push_sample")]_vars

\* a unit was pushed on a stream whose format was set with a video or audio
\* major type but which has no decoder, and was dropped
C11_Witness ==
    \E t \in Callers :
        /\ call[t].pc = "idle"
        /\ call[t].op = "push_sample"
        /\ strm[call[t].s].major_type \in {"VIDEO", "AUDIO"}
        /\ strm[call[t].s].decoder = "NULL"
        /\ strm[call[t].s].queue = <<>>

\* the thread dispatches (line 367-375) or acknowledges (line 377) its sample
Consumes(th) ==
    \/ thr[th].pc = "play" /\ thr'[th].pc = "ack"
    \/ thr[th].pc = "ack" /\ thr'[th].pc = "free"

\* C12: when the playback thread dispatches or acknowledges a sample of a
\* stream, every sample pushed on that stream before it has been dispatched,
\* acknowledged and freed, and every sample pushed after it is still queued
\* and unacknowledged (all samples here are pushed on stream 1, in the order
\* of their addresses).
C12_ConsumedInPushOrder ==
    [][\A th \in TH :
          Consumes(th) =>
             LET x == thr[th].sample IN
             /\ x.stream = 1
             /\ \A k \in 1..Len(heap) :
                   /\ k < x.obj => (heap[k].acks = 1 /\ heap[k].obj = "freed")
                   /\ k > x.obj => /\ heap[k].acks = 0
                                   /\ \E i \in 1..Len(strm[1].queue) :
                                         strm[1].queue[i].obj = k]_vars

\* the thread is about to acknowledge the second sample pushed, the first
\* has been consumed and a third was pushed meanwhile
C12_Witness ==
    \E th \in TH :
        /\ thr[th].pc = "ack"
        /\ thr[th].sample.obj = 2
        /\ heap[1].acks = 1
        /\ Len(heap) >= 3
        /\ strm[1].queue # <<>>

\* the samples the playback threads hold
Held == {thr[th].sample : th \in {th \in TH : thr[th].sample.obj # NULL}}

\* the samples queued on some stream
Queued == UNION {Range(strm[s].queue) : s \in SH}

\* C13: no payload buffer is freed or handed over twice; the buffer of a
\* queued or just popped sample is owned by the sample; after dispatch the
\* sample's data pointer is NULL exactly when the buffer went to the audio
\* sink or to a video frame event or was freed with a rejected event; and
\* once the sample object is freed (after play, or by flush) its buffer has
\* been freed once or belongs to a sink.
C13_PayloadReleasedOnce ==
    /\ \A k \in 1..Len(heap) : heap[k].obj # "bad" /\ heap[k].data # "bad"
    /\ "double_free" \notin err
    /\ \A x \in Queued :
          heap[x.obj].obj = "live"
          /\ heap[x.obj].data = (IF x.data # NULL THEN "sample" ELSE "none")
    /\ \A x \in Held :
          /\ heap[x.obj].obj = "live"
          /\ x.data # NULL => (x.data = x.obj /\ heap[x.obj].data = "sample")
          /\ x.data = NULL => heap[x.obj].data \in {"none", "sink", "event", "freed"}
    /\ \A k \in 1..Len(heap) :
          /\ heap[k].obj = "freed" => heap[k].data \in {"none", "sink", "event", "freed"}
          /\ heap[k].obj = "live" => \E x \in Queued \cup Held : x.obj = k

\* a video frame event was rejected and its buffer freed with it, the sample
\* is not yet acknowledged, and another sample was freed by a flush
C13_Witness ==
    \E th \in TH :
        LET x == thr[th].sample IN
        /\ thr[th].pc = "ack"
        /\ strm[x.stream].major_type = "VIDEO"
        /\ x.data = NULL
        /\ heap[x.obj].data = "freed"
        /\ \E k \in 1..Len(heap) :
              heap[k].obj = "freed" /\ heap[k].data = "freed" /\ heap[k].acks = 0

\* C14: a tsmf_presentation_stop that has set thread_exit eventually leaves
\* its wait loop and returns.
C14_StopReturns ==
    \A t \in Callers : (call[t].pc = "sp_wait") ~> (call[t].pc = "idle")

\* C15 as stated: no step decreases the playback_time of a presentation.
C15_AsStated ==
    [][\A p \in PH : pres'[p].playback_time >= pres[p].playback_time]_vars

\* the step is lines 432-436 of a tsmf_presentation_start on p
StartSpawns(p) ==
    \E t \in Callers :
        call[t].pc = "st_spawn" /\ call[t].p = p /\ call'[t].pc = "idle"

\* C15 amended: a step decreases the playback_time of a presentation only if
\* it is a tsmf_presentation_start that found the thread not running, which
\* sets it to 0; every other step of start, stop, flush, push_sample, stream
\* end, destroy and the playback thread leaves it as it is or increases it.
C15_PlaybackTimeMonotonic ==
    [][\A p \in PH :
          IF StartSpawns(p)
          THEN pres'[p].playback_time = 0
          ELSE pres'[p].playback_time >= pres[p].playback_time]_vars

\* a presentation that has played up to a playback_time above 0 was stopped
\* and is being started again
C15_Witness ==
    \E t \in Callers :
        /\ call[t].pc = "st_spawn"
        /\ pres[call[t].p].playback_time > 0
        /\ pres[call[t].p].thread_exit = 1

\* the step is a section of code between pthread_mutex_lock and
\* pthread_mutex_unlock of the mutex of presentation p: the scheduler
\* (154-190), the linking of a pushed sample (672-684), the flush of the
\* queues (486-489), the linking of a new stream (539-553), the unlinking of
\* a stream and the release of its queue (616-634)
CriticalSection(p) ==
    \/ \E th \in TH : thr[th].presentation = p /\ PopStep(th)
    \/ Len(heap') > Len(heap)
    \/ \E t \in Callers :
          \/ call[t].pc = "idle" /\ call'[t].pc = "fl_audio" /\ call'[t].p = p
          \/ call[t].pc = "sn_link" /\ call[t].p = p /\ call'[t].pc = "idle"
          \/ call[t].pc = "sf_drain" /\ call[t].p = p /\ call'[t].pc # "sf_drain"

\* C16: a step that changes the playback_time or the stream list of a
\* presentation or the queue of one of its streams is made with the
\* presentation's mutex held.
C16_MutexDiscipline ==
    [][\A p \in PH :
          (\/ pres'[p].playback_time # pres[p].playback_time
           \/ pres'[p].streams # pres[p].streams
           \/ \E s \in Range(pres[p].streams) : strm'[s].queue # strm[s].queue)
          => CriticalSection(p)]_vars

\* the streams of p that hold samples, and the one among them whose head has
\* the smallest start_time, the first in the stream list among equals
Holding(p) == {i \in 1..Len(pres[p].streams) : strm[pres[p].streams[i]].queue # <<>>}

HeadStart(p, i) == Head(strm[pres[p].streams[i]].queue).start_time

IsEarliest(p, i) ==
    /\ i \in Holding(p)
    /\ \A j \in Holding(p) :
          /\ HeadStart(p, i) <= HeadStart(p, j)
          /\ HeadStart(p, i) = HeadStart(p, j) => i <= j

Pending(p) == \E s \in Range(pres[p].streams) : strm[s].queue = <<>> /\ strm[s].eos = 0

C18_RegisteredUntilStreamsFreed ==
    \A p \in PH :
        (pres[p].st = "live" /\ pres[p].streams # <<>>)
        => tsmf_presentation_find_by_id(pres[p].presentation_id) = p

\* C19: a playback thread that found the eos flag set after the exit request
\* and has left the drain loop of lines 409-410 leaves no sample queued on
\* any stream of its presentation.
C19_DrainEmptiesQueues ==
    \A th \in TH :
        (thr[th].drain /\ thr[th].pc \in {"audio_wait", "audio_free", "audio_null", "exit"})
        => \A s \in Range(pres[thr[th].presentation].streams) : strm[s].queue = <<>>

\* C20: a sample is acknowledged at most once, only while the playback
\* thread holds it between dispatch and free, and the acknowledgment carries
\* the payload length recorded for the sample when it was pushed; a sample
\* freed without having been popped is not acknowledged.
C20_Acknowledged ==
    \A k \in 1..Len(heap) :
        /\ heap[k].acks <= 1
        /\ heap[k].acks = 1 =>
              /\ heap[k].ack[4] = heap[k].size
              /\ \/ heap[k].obj = "freed"
                 \/ \E th \in TH : thr[th].sample.obj = k /\ thr[th].pc = "free"
        /\ (\E x \in Queued : x.obj = k) => heap[k].acks = 0

\* a playback thread dispatches its popped sample of a video stream
VideoDispatch(th) ==
    /\ thr[th].pc = "play"
    /\ thr'[th].pc = "ack"
    /\ strm[thr[th].sample.stream].major_type = "VIDEO"

\* the notifications of a dispatch of sample on p when a redraw of the
\* previous region is due exactly if redraw_due
DispatchEffect(p, sample, redraw_due) ==
    IF sample.data # NULL
    THEN /\ sent' = (IF redraw_due THEN <<(<<"redraw", pres[p].last>>)>> ELSE <<>>)
                    \o <<(<<"video", pres[p].output, sample.data>>)>>
         /\ pres'[p].last = pres'[p].output
    ELSE /\ sent' = <<>>
         /\ pres'[p].last = pres[p].last

\* C21 as stated: the redraw of the previous region is emitted whenever the
\* last delivered region differs from the target region
C21_AsStated ==
    [][\A th \in TH : VideoDispatch(th) =>
          LET sample == thr[th].sample
              p == strm[sample.stream].presentation
          IN  DispatchEffect(p, sample, pres[p].last # pres[p].output)]_vars

\* C21: the dispatch of a video sample with a payload emits a redraw of the
\* previous region, before the video-frame notification, exactly when the last
\* delivered region differs from the target region and has a non-zero width
\* and height; the video-frame notification carries the target region and the
\* payload, and afterwards the last delivered region equals the target region;
\* a sample without payload emits nothing and leaves the last delivered
\* region unchanged
C21_VideoDispatch ==
    [][\A th \in TH : VideoDispatch(th) =>
          LET sample == thr[th].sample
              p == strm[sample.stream].presentation
          IN  DispatchEffect(p, sample,
                             /\ pres[p].last # pres[p].output
                             /\ pres[p].last[3] # 0
                             /\ pres[p].last[4] # 0)]_vars

\* a dispatch has emitted the redraw of a previous region and then the video
\* frame for a different target region
C21_Witness ==
    /\ Len(sent) = 2
    /\ sent[1][1] = "redraw"
    /\ sent[2][1] = "video"
    /\ sent[1][2] # sent[2][2]
    /\ \E th \in TH : thr[th].pc = "ack" /\ pres[thr[th].presentation].last = sent[2][2]

\* the thread slots a step turns into a new playback thread of p
Spawned(p) ==
    {th \in TH : thr[th].pc = "none" /\ thr'[th].pc = "init"
                 /\ thr'[th].presentation = p}

\* C22: a tsmf_presentation_start on a presentation whose thread is running
\* changes nothing (playback_time, thread_exit, thread_status and the threads
\* stay as they are); on a stopped presentation it sets playback_time to 0,
\* thread_exit to 0 and thread_status to 1 and creates exactly one playback
\* thread; no other step creates a playback thread
C22_StartEffect ==
    [][\A p \in PH :
          /\ \A t \in Callers :
                (pres[p].thread_status # 0 /\ StartCheck(t, p)) => UNCHANGED vars
          /\ IF StartSpawns(p)
             THEN /\ pres[p].thread_status = 0
                  /\ pres'[p] = [pres[p] EXCEPT !.playback_time = 0,
                                                !.thread_exit = 0,
                                                !.thread_status = 1]
                  /\ Cardinality(Spawned(p)) = 1
                  /\ \A th \in TH \ Spawned(p) : thr'[th] = thr[th]
             ELSE Spawned(p) = {}]_vars

\* a presentation that played a sample and was stopped has been started
\* again: one new thread, the flags set and playback_time back at 0
C22_Witness ==
    \E p \in PH, th \in TH :
        /\ thr[th].pc = "init" /\ thr[th].presentation = p
        /\ PlaybackThreads(p) = {th}
        /\ pres[p].thread_status = 1
        /\ pres[p].thread_exit = 0
        /\ pres[p].playback_time = 0
        /\ \E i \in 1..Len(heap) : heap[i].obj = "freed"

\* the sample object k is in the queue of some stream
QueuedObject(k) == \E sample \in Queued : sample.obj = k

\* C23: with the playback thread running and scheduled fairly and the audio
\* sink draining, every sample queued on a stream is eventually popped, also
\* while another stream of the presentation stays empty and is never ended
C23_NoStall ==
    \A k \in 1..MaxSamples :
        (QueuedObject(k) /\ \E th \in TH : Running(th)) ~> ~QueuedObject(k)

\* C24: every sample that tsmf_stream_push_sample has enqueued carries a
\* payload buffer of non-zero length, taken from the decoder after a decode
\* step that returned 0
C24_DecodedPayload ==
    \A sample \in Queued : sample.data # NULL /\ sample.data_size > 0

\* C25: when the playback thread dispatches the sample it has popped, through
\* sample->stream, the stream that owns the sample has not been freed
C25_OwnerAliveAtDispatch ==
    [][\A th \in TH :
          (thr[th].pc = "play" /\ thr'[th].pc = "ack")
             => strm[thr[th].sample.stream].st = "live"]_vars

\* C26: no operation of the audio sink (Flush, Play, GetQueueLength) is
\* invoked through presentation->audio after the playback thread has freed
\* the sink
C26_SinkNotUsedAfterFree == "uaf_audio" \notin err

====
